---- MODULE Spec2Model ----
(***************************************************************************)
(* A model of Spoolman's bottle / resin mutation layer and its websocket   *)
(* notification endpoints:                                                 *)
(*   spoolman/database/bottle.py, spoolman/database/resin.py,              *)
(*   spoolman/api/v1/bottle.py,   spoolman/api/v1/resin.py.                *)
(*                                                                         *)
(* Weights are integers (grams on an integer grid), times are integers.    *)
(* The relational store keeps committed rows; a session that has executed  *)
(* the UPDATE of use_weight_safe holds the row until it commits.           *)
(***************************************************************************)
EXTENDS Integers, Sequences, FiniteSets, TLC

\* ------------------------------------------------------------------ bounds
\* Largest used_weight / resin weight value explored.
MaxWeight == 2
\* Number of bottle identifiers the store hands out.
MaxBottles == 1
\* Number of concurrently running request sessions.
NumSessions == 2
\* Largest clock value (datetime.utcnow() is a counter here).
MaxTime == 1
\* Number of websocket connections.
NumConns == 2

\* ------------------------------------------------------------------ values
\* Optional[T]: None is the empty tuple, a present value v is <<v>>.
None == <<>>
Some(v) == <<v>>
Val(x) == x[1]

BottleIds == 1..MaxBottles
\* An identifier that never names a row.
NoSuchId == MaxBottles + 1
ResinIds == {1, 2}
NoSuchResin == Cardinality(ResinIds) + 1
VendorIds == {1}
Sessions == 1..NumSessions
Conns == 1..NumConns
Times == 0..MaxTime

\* str(bottle.id): the decimal text of an identifier.
Digits == <<"0", "1", "2", "3", "4", "5", "6", "7", "8", "9">>
str(n) == IF n < 10 THEN Digits[n + 1] ELSE Digits[(n \div 10) + 1] \o Digits[(n % 10) + 1]

max(a, b) == IF a >= b THEN a ELSE b

VARIABLES
    vendors,    \* the set of vendor ids in the store
    resins,     \* resin id -> row, committed
    bottles,    \* bottle id -> row, committed
    nextId,     \* the next bottle id the store assigns
    sess,       \* session -> the request it is in the middle of
    now,        \* the clock
    subs,       \* websocket_manager: topic -> set of connections
    conn,       \* connection -> state of its endpoint coroutine
    req,        \* the request the last handler step served
    resp,       \* the response the last handler step produced (None: none yet)
    outbox,     \* the events the last step handed to websocket_manager.send
    inbox,      \* connection -> the messages the last step sent to it
    dropped,    \* the connections the last step's send failed for and deregistered
    hist        \* history: the UPDATEs of use_weight_safe, in execution order

vars == <<vendors, resins, bottles, nextId, sess, now, subs, conn, req, resp, outbox, inbox, dropped, hist>>

\* ------------------------------------------------------------------ rows
\* models.Bottle as the handlers use it.  lot_nr and comment are handled by
\* the code exactly like location and are not modelled separately.  archived
\* is a nullable column: None, Some(FALSE) or Some(TRUE).
BottleRow(resin_id, used_weight, first_used, last_used, location, archived) ==
    [resin_id |-> resin_id, used_weight |-> used_weight, first_used |-> first_used,
     last_used |-> last_used, location |-> location, archived |-> archived]

\* Bottle.from_db(bottle): the snapshot an event or a response carries.
from_db(id, row) == [id |-> id, row |-> row]

\* get_by_id of bottle.py and resin.py: whether the row is found (else ItemNotFoundError).
bottle_get_by_id(id) == id \in DOMAIN bottles
resin_get_by_id(id) == id \in DOMAIN resins

\* The outcome of a computation that may raise.
Ok(v) == [raise |-> "", value |-> v]
Raise(e) == [raise |-> e, value |-> 0]

\* The row of bottle id is held by a session whose UPDATE is not yet committed.
Locked(id) == \E p \in Sessions : sess[p].pc = "use" /\ sess[p].id = id /\ sess[p].used # None

\* ------------------------------------------------------------------ broker
\* websocket_manager (spoolman.ws): subscriptions by topic, hierarchical fan-out.
BottleTopics == {<<"bottle">>} \cup {<<"bottle", str(i)>> : i \in 1..NoSuchId}
ResinTopics == {<<"resin">>} \cup {<<"resin", str(i)>> : i \in 1..NoSuchResin}
VendorTopics == {<<"vendor">>} \cup {<<"vendor", str(i)>> : i \in VendorIds}
Topics == BottleTopics \cup ResinTopics \cup VendorTopics

IsPrefix(s, t) == Len(s) <= Len(t) /\ \A i \in 1..Len(s) : s[i] = t[i]

\* The connections a publish on topic reaches: registered under the topic or under a prefix of it.
Subscribers(topic) == UNION {subs[t] : t \in {u \in Topics : IsPrefix(u, topic)}}

\* websocket_manager.connect / disconnect.
ws_connect(topic, c) == [subs EXCEPT ![topic] = @ \cup {c}]
ws_disconnect(topic, c) == [subs EXCEPT ![topic] = @ \ {c}]

\* The subscribers a send to fails for: their endpoint has ended, the registration was left behind.
Failing(events) ==
    {c \in Conns : conn[c].pc # "open" /\ \E i \in 1..Len(events) : c \in Subscribers(events[i].topic)}

\* A send that stops at a failed delivery: with a failing subscriber nobody gets the event.
Deliver_aborted(events) ==
    [c \in Conns |->
        IF Failing(events) # {} THEN <<>>
        ELSE SelectSeq(events, LAMBDA e : c \in Subscribers(e.topic) /\ conn[c].pc = "open")]

\* The messages a step delivers for the events it publishes: each event to every
\* subscriber whose connection is still open.
Deliver(events) ==
    [c \in Conns |->
        SelectSeq(events, LAMBDA e : c \in Subscribers(e.topic) /\ conn[c].pc = "open")]

\* websocket_manager.send for every event of a step: delivery to the open subscribers,
\* the failing ones are dropped from every topic.  A step that publishes nothing sends nothing.
Publish(events) ==
    /\ outbox' = events
    /\ dropped' = Failing(events)
    /\ inbox' = Deliver(events)
    /\ subs' = [t \in Topics |-> subs[t] \ Failing(events)]

\* bottle_changed(bottle, typ): the event and the topic it is sent on.
bottle_topic(id) == <<"bottle", str(id)>>
bottle_changed(id, row, typ) ==
    [topic |-> bottle_topic(id), type |-> typ, resource |-> "bottle", date |-> now,
     payload |-> from_db(id, row)]

\* The names module resin.py binds for the event of a resin: its imports from
\* spoolman.api.v1.models and spoolman.ws.
ResinModuleNames == {"EventType", "Resin", "ResinEvent", "websocket_manager"}

\* resin_changed(resin, typ): the event is built as FilamentEvent(..., payload =
\* Filament.from_db(resin)).  The module binds neither name, so evaluating the
\* arguments raises NameError and websocket_manager.send is not reached.
resin_topic(id) == <<"resin", str(id)>>
resin_changed(id, row, typ) ==
    IF {"FilamentEvent", "Filament"} \subseteq ResinModuleNames
    THEN Ok([topic |-> resin_topic(id), type |-> typ, resource |-> "resin", date |-> now,
             payload |-> from_db(id, row)])
    ELSE Raise("NameError")

\* The vendor module's event, on the vendor's topic.
vendor_changed(id, typ) ==
    [topic |-> <<"vendor", str(id)>>, type |-> typ, resource |-> "vendor", date |-> now,
     payload |-> from_db(id, None)]

\* ------------------------------------------------------------------ create
\* BottleParameters: remaining_weight and used_weight carry ge=0.
BottleParametersValid(body) ==
    /\ body.remaining_weight # None => Val(body.remaining_weight) >= 0
    /\ body.used_weight # None => Val(body.used_weight) >= 0

\* bottle.create with the clamp at zero left out.
create_used_weight_unclamped(resin_weight, remaining_weight, used_weight) ==
    IF used_weight = None
    THEN IF remaining_weight # None
         THEN IF resin_weight = None
              THEN Raise("ItemCreateError")
              ELSE Ok(Val(resin_weight) - Val(remaining_weight))
         ELSE Ok(0)
    ELSE Ok(Val(used_weight))

\* bottle.create taking a resin without weight as a full bottle instead of raising.
create_used_weight_implicit_zero(resin_weight, remaining_weight, used_weight) ==
    IF used_weight = None
    THEN IF remaining_weight # None /\ resin_weight # None
         THEN Ok(max(Val(resin_weight) - Val(remaining_weight), 0))
         ELSE Ok(0)
    ELSE Ok(Val(used_weight))

\* bottle.create, the used_weight it stores: ItemCreateError when remaining_weight
\* is given and the resin has no weight.
create_used_weight(resin_weight, remaining_weight, used_weight) ==
    IF used_weight = None
    THEN IF remaining_weight # None
         THEN IF resin_weight = None
              THEN Raise("ItemCreateError")
              ELSE Ok(max(Val(resin_weight) - Val(remaining_weight), 0))
         ELSE Ok(0)
    ELSE Ok(Val(used_weight))

\* resp is the response of the step just taken (status 0: the step answered no request).
Response(status, payload) == [status |-> status, payload |-> payload]
NoResp == Response(0, None)

\* api create with the check of the two weights left out.
create_both_given_unchecked(body) == FALSE

\* api create, the check that answers 400 "Only specify either remaining_weight or used_weight."
create_both_given(body) == body.remaining_weight # None /\ body.used_weight # None

\* A handler step that changes nothing in the store and publishes nothing.
Reject(status) ==
    /\ resp' = Response(status, None)
    /\ Publish(<<>>)
    /\ UNCHANGED <<vendors, resins, bottles, nextId, sess, now, conn>>

\* bottle.create from the computed used_weight on: the row is added, committed, published.
CreateRow(body, used) ==
    \E row \in {BottleRow(body.resin_id, used, body.first_used, body.last_used,
                          body.location, Some(body.archived))} :
        /\ nextId <= MaxBottles
        /\ bottles' = [i \in DOMAIN bottles \cup {nextId} |->
                          IF i = nextId THEN row ELSE bottles[i]]
        /\ nextId' = nextId + 1
        /\ resp' = Response(200, Some(from_db(nextId, row)))
        /\ Publish(<<bottle_changed(nextId, row, "ADDED")>>)
        /\ UNCHANGED <<vendors, resins, sess, now, conn>>

\* POST /bottle: api create, then bottle.create.
Create(body) ==
    IF ~BottleParametersValid(body) THEN Reject(422)
    ELSE IF create_both_given(body) THEN Reject(400)
    ELSE IF ~resin_get_by_id(body.resin_id) THEN Reject(404)
    ELSE \E used \in {create_used_weight(resins[body.resin_id].weight,
                                         body.remaining_weight, body.used_weight)} :
            IF used.raise = "ItemCreateError" THEN Reject(400)
            ELSE CreateRow(body, used.value)

\* ------------------------------------------------------------------ consume
\* A session: idle, or in the middle of a request.  used is the used_weight its
\* uncommitted UPDATE wrote (None: the UPDATE matched no row).
IdleSession == [pc |-> "idle", id |-> 0, used |-> None]

\* The session that serves a new request: sessions are interchangeable, the first idle one is taken.
Free(p) == sess[p].pc = "idle" /\ \A q \in 1..(p - 1) : sess[q].pc # "idle"

\* use_weight_safe writing the delta over the stored value instead of adding it.
use_weight_safe_overwrite(used_weight, weight) == IF weight >= 0 THEN weight ELSE 0

\* use_weight_safe without the else_=0.0 branch.
use_weight_safe_unclamped(used_weight, weight) == used_weight + weight

\* use_weight_safe: the CASE expression of the UPDATE, evaluated by the store on the row.
use_weight_safe(used_weight, weight) ==
    IF used_weight + weight >= 0 THEN used_weight + weight ELSE 0

\* spoolman.math.weight_from_length: pi * (diameter/2)^2 * length / 1000 * density,
\* on the integer grid (the unit of weight absorbs pi/4000).
weight_from_length(length, diameter, density) == length * diameter * diameter * density

\* The UPDATE of use_weight_safe on bottle id, executed in session p.
ExecuteUpdate(p, id, weight) ==
    /\ ~Locked(id)
    /\ IF id \in DOMAIN bottles
       THEN /\ bottles[id].used_weight + weight <= MaxWeight
            /\ sess' = [sess EXCEPT ![p] = [pc |-> "use", id |-> id,
                          used |-> Some(use_weight_safe(bottles[id].used_weight, weight))]]
       ELSE sess' = [sess EXCEPT ![p] = [pc |-> "use", id |-> id, used |-> None]]
    /\ resp' = NoResp
    /\ Publish(<<>>)
    /\ UNCHANGED <<vendors, resins, bottles, nextId, now, conn>>

\* api use with the check of the two deltas left out.
use_both_given_unchecked(body) == FALSE

\* api use, the check that answers 400 "Only specify either use_weight or use_length."
use_both_given(body) == body.use_weight # None /\ body.use_length # None

\* PUT /bottle/{id}/use, up to the UPDATE: api use, then the head of use_weight or use_length
\* (use_length reads diameter and density through the join of the bottle with its resin).
Use(p, id, body) ==
    /\ Free(p)
    /\ IF use_both_given(body) THEN Reject(400)
       ELSE IF body.use_weight # None THEN ExecuteUpdate(p, id, Val(body.use_weight))
       ELSE IF body.use_length # None
            THEN IF id \notin DOMAIN bottles THEN Reject(404)
                 ELSE LET resin_info == resins[bottles[id].resin_id] IN
                      ExecuteUpdate(p, id, weight_from_length(Val(body.use_length),
                                             resin_info.diameter, resin_info.density))
       ELSE Reject(400)

\* The tail of use_weight with first_used stamped on every call.
UseFinish_restamps(p) ==
    LET id == sess[p].id IN
    /\ sess[p].pc = "use"
    /\ sess' = [sess EXCEPT ![p] = IdleSession]
    /\ IF ~bottle_get_by_id(id)
       THEN /\ resp' = Response(404, None)
            /\ Publish(<<>>)
            /\ UNCHANGED bottles
       ELSE \E row \in {[bottles[id] EXCEPT
                            !.used_weight = IF sess[p].used # None THEN Val(sess[p].used) ELSE @,
                            !.first_used = Some(now),
                            !.last_used = Some(now)]} :
            /\ bottles' = [bottles EXCEPT ![id] = row]
            /\ resp' = Response(200, Some(from_db(id, row)))
            /\ Publish(<<bottle_changed(id, row, "UPDATED")>>)
    /\ UNCHANGED <<vendors, resins, nextId, now, conn>>

\* The tail of use_weight and use_length: get_by_id, first_used / last_used, commit, event.
UseFinish(p) ==
    LET id == sess[p].id IN
    /\ sess[p].pc = "use"
    /\ sess' = [sess EXCEPT ![p] = IdleSession]
    /\ IF ~bottle_get_by_id(id)
       THEN /\ resp' = Response(404, None)
            /\ Publish(<<>>)
            /\ UNCHANGED bottles
       ELSE \E row \in {[bottles[id] EXCEPT
                            !.used_weight = IF sess[p].used # None THEN Val(sess[p].used) ELSE @,
                            !.first_used = IF @ = None THEN Some(now) ELSE @,
                            !.last_used = Some(now)]} :
            /\ bottles' = [bottles EXCEPT ![id] = row]
            /\ resp' = Response(200, Some(from_db(id, row)))
            /\ Publish(<<bottle_changed(id, row, "UPDATED")>>)
    /\ UNCHANGED <<vendors, resins, nextId, now, conn>>

\* ------------------------------------------------------------------ update
\* The fields of a PATCH body in the order body.dict() yields them.
PatchOrder == <<"first_used", "last_used", "resin_id", "remaining_weight", "used_weight", "location", "archived">>

\* bottle.update where a new resin means a fresh bottle: the reassignment resets used_weight.
update_field_reassign_resets(row, k, v) ==
    IF k = "resin_id"
    THEN IF resin_get_by_id(Val(v)) THEN Ok([row EXCEPT !.resin_id = Val(v), !.used_weight = 0])
         ELSE Raise("ItemNotFoundError")
    ELSE IF k = "remaining_weight"
    THEN IF resins[row.resin_id].weight = None THEN Raise("ItemCreateError")
         ELSE Ok([row EXCEPT !.used_weight = max(Val(resins[row.resin_id].weight) - Val(v), 0)])
    ELSE IF k = "used_weight" THEN Ok([row EXCEPT !.used_weight = Val(v)])
    ELSE Ok([row EXCEPT ![k] = v])

\* bottle.update where a resin that is not found is skipped and the loop goes on.
update_field_skip_missing(row, k, v) ==
    IF k = "resin_id"
    THEN IF resin_get_by_id(Val(v)) THEN Ok([row EXCEPT !.resin_id = Val(v)])
         ELSE Ok(row)
    ELSE IF k = "remaining_weight"
    THEN IF resins[row.resin_id].weight = None THEN Raise("ItemCreateError")
         ELSE Ok([row EXCEPT !.used_weight = max(Val(resins[row.resin_id].weight) - Val(v), 0)])
    ELSE IF k = "used_weight" THEN Ok([row EXCEPT !.used_weight = Val(v)])
    ELSE Ok([row EXCEPT ![k] = v])

\* bottle.update, one iteration of "for k, v in data.items()" on the loaded row.
update_field(row, k, v) ==
    IF k = "resin_id"
    THEN IF resin_get_by_id(Val(v)) THEN Ok([row EXCEPT !.resin_id = Val(v)])
         ELSE Raise("ItemNotFoundError")
    ELSE IF k = "remaining_weight"
    THEN IF resins[row.resin_id].weight = None THEN Raise("ItemCreateError")
         ELSE IF v = None THEN Raise("TypeError")
         ELSE Ok([row EXCEPT !.used_weight = max(Val(resins[row.resin_id].weight) - Val(v), 0)])
    ELSE IF k = "used_weight" THEN Ok([row EXCEPT !.used_weight = Val(v)])
    ELSE Ok([row EXCEPT ![k] = v])

\* bottle.update, the loop from field i of PatchOrder on.  When an iteration raises,
\* value is the loaded row as the iterations before it have left it.
RECURSIVE update_fields(_, _, _)
update_fields(row, data, i) ==
    IF i > Len(PatchOrder) THEN Ok(row)
    ELSE IF PatchOrder[i] \notin DOMAIN data THEN update_fields(row, data, i + 1)
    ELSE LET res == update_field(row, PatchOrder[i], data[PatchOrder[i]]) IN
         IF res.raise # "" THEN [raise |-> res.raise, value |-> row]
         ELSE update_fields(res.value, data, i + 1)

\* BottleUpdateParameters: the ge=0 constraints it inherits from BottleParameters.
BottleUpdateParametersValid(data) ==
    /\ ("remaining_weight" \in DOMAIN data /\ data["remaining_weight"] # None)
          => Val(data["remaining_weight"]) >= 0
    /\ ("used_weight" \in DOMAIN data /\ data["used_weight"] # None)
          => Val(data["used_weight"]) >= 0

Given(data, k) == k \in DOMAIN data /\ data[k] # None

\* PATCH /bottle/{id}: api update, then bottle.update.  An exception that leaves the
\* handler ends the request's session without commit.  ItemCreateError does not leave
\* it: the handler catches it and returns the 400 answer, so the session ends as after
\* any handler that returned, with the commit of what is pending in it (the commit that
\* bottle.delete relies on), here the attributes the loop had set on the loaded row.
Update(id, data) ==
    IF ~BottleUpdateParametersValid(data) THEN Reject(422)
    ELSE IF Given(data, "remaining_weight") /\ Given(data, "used_weight") THEN Reject(400)
    ELSE IF "resin_id" \in DOMAIN data /\ data["resin_id"] = None THEN Reject(422)
    ELSE IF ~bottle_get_by_id(id) THEN Reject(404)
    ELSE \E res \in {update_fields(bottles[id], data, 1)} :
            IF res.raise = "ItemNotFoundError" THEN Reject(404)
            ELSE IF res.raise = "ItemCreateError"
            THEN /\ res.value # bottles[id] => ~Locked(id)
                 /\ bottles' = [bottles EXCEPT ![id] = res.value]
                 /\ resp' = Response(400, None)
                 /\ Publish(<<>>)
                 /\ UNCHANGED <<vendors, resins, nextId, sess, now, conn>>
            ELSE IF res.raise # "" THEN Reject(500)
            ELSE /\ ~Locked(id)
                 /\ bottles' = [bottles EXCEPT ![id] = res.value]
                 /\ resp' = Response(200, Some(from_db(id, res.value)))
                 /\ Publish(<<bottle_changed(id, res.value, "UPDATED")>>)
                 /\ UNCHANGED <<vendors, resins, nextId, sess, now, conn>>

\* ------------------------------------------------------------------ delete
Remove(f, id) == [i \in DOMAIN f \ {id} |-> f[i]]

\* A delete that answers a missing bottle like a deleted one: 200 instead of not found.
Delete_idempotent(p, id) ==
    /\ Free(p)
    /\ IF ~bottle_get_by_id(id)
       THEN /\ resp' = Response(200, None)
            /\ Publish(<<>>)
            /\ UNCHANGED <<vendors, resins, bottles, nextId, sess, now, conn>>
       ELSE /\ sess' = [sess EXCEPT ![p] = [pc |-> "deleted", id |-> id, used |-> None]]
            /\ resp' = Response(200, None)
            /\ Publish(<<bottle_changed(id, bottles[id], "DELETED")>>)
            /\ UNCHANGED <<vendors, resins, bottles, nextId, now, conn>>

\* DELETE /bottle/{id}: api delete, then bottle.delete: get_by_id, db.delete, event.
\* bottle.delete does not commit: the row leaves the store when the session ends.
Delete(p, id) ==
    /\ Free(p)
    /\ IF ~bottle_get_by_id(id) THEN Reject(404)
       ELSE /\ sess' = [sess EXCEPT ![p] = [pc |-> "deleted", id |-> id, used |-> None]]
            /\ resp' = Response(200, None)
            /\ Publish(<<bottle_changed(id, bottles[id], "DELETED")>>)
            /\ UNCHANGED <<vendors, resins, bottles, nextId, now, conn>>

\* The end of the request's database session: what the handler left pending is committed.
SessionCommit(p) ==
    /\ sess[p].pc = "deleted"
    /\ ~Locked(sess[p].id)
    /\ bottles' = Remove(bottles, sess[p].id)
    /\ sess' = [sess EXCEPT ![p] = IdleSession]
    /\ resp' = NoResp
    /\ Publish(<<>>)
    /\ UNCHANGED <<vendors, resins, nextId, now, conn>>

\* The store's foreign keys: the rows that reference a resin, a vendor.
BottlesOf(resin_id) == {i \in DOMAIN bottles : bottles[i].resin_id = resin_id}
ResinsOf(vendor_id) == {i \in DOMAIN resins : resins[i].vendor_id = Some(vendor_id)}

\* resin.delete on a store that does not check the reference of the bottles.
resin_delete_commit_unchecked(id) == Ok(0)

\* resin.delete, the commit: IntegrityError when a bottle still references the resin.
resin_delete_commit(id) == IF BottlesOf(id) # {} THEN Raise("IntegrityError") ELSE Ok(0)

\* DELETE /resin/{id}: api delete, then resin.delete: the commit, then the event.  An
\* exception of resin_changed comes after the commit and is no ItemDeleteError: the
\* resin is deleted and the request ends as an internal server error.
ResinDelete(id) ==
    IF ~resin_get_by_id(id) THEN Reject(404)
    ELSE IF resin_delete_commit(id).raise = "IntegrityError" THEN Reject(403)
    ELSE \E event \in {resin_changed(id, resins[id], "DELETED")} :
            /\ resins' = Remove(resins, id)
            /\ IF event.raise # ""
               THEN resp' = Response(500, None) /\ Publish(<<>>)
               ELSE resp' = Response(200, None) /\ Publish(<<event.value>>)
            /\ UNCHANGED <<vendors, bottles, nextId, sess, now, conn>>

\* Deleting a vendor: rejected while a resin references it, as resin.delete is.
VendorDelete(id) ==
    IF id \notin vendors THEN Reject(404)
    ELSE IF ResinsOf(id) # {} THEN Reject(403)
    ELSE /\ vendors' = vendors \ {id}
         /\ resp' = Response(200, None)
         /\ Publish(<<vendor_changed(id, "DELETED")>>)
         /\ UNCHANGED <<resins, bottles, nextId, sess, now, conn>>

\* ------------------------------------------------------------------ clock
Tick ==
    /\ now < MaxTime
    /\ now' = now + 1
    /\ resp' = NoResp
    /\ Publish(<<>>)
    /\ UNCHANGED <<vendors, resins, bottles, nextId, sess, conn>>

\* ------------------------------------------------------------------ websockets
\* The topic notify_any registers under and the topic notify(bottle_id) registers under.
notify_any_topic == <<"bottle">>
\* notify registering under the topic of notify_any.
notify_topic_type_wide(bottle_id) == <<"bottle">>
notify_topic(bottle_id) == <<"bottle", str(bottle_id)>>
resin_notify_any_topic == <<"resin">>
resin_notify_topic(resin_id) == <<"resin", str(resin_id)>>

BottleEndpointTopics == {notify_any_topic, resin_notify_any_topic} \cup {notify_topic(i) : i \in 1..NoSuchId}

NewConn == [pc |-> "new", topic |-> <<>>]
Healthy == [status |-> "healthy"]

\* notify_any / notify up to the loop: accept, then websocket_manager.connect(topic, websocket).
WsConnect(c, topic) ==
    /\ conn[c].pc = "new"
    /\ conn' = [conn EXCEPT ![c] = [pc |-> "open", topic |-> topic]]
    /\ subs' = ws_connect(topic, c)
    /\ resp' = NoResp
    /\ outbox' = <<>>
    /\ dropped' = {}
    /\ inbox' = [d \in Conns |-> <<>>]
    /\ UNCHANGED <<vendors, resins, bottles, nextId, sess, now>>

\* One turn of the loop: receive_text returns text; a non-empty text is answered.
WsReceive(c, text) ==
    /\ conn[c].pc = "open"
    /\ inbox' = [d \in Conns |-> IF d = c /\ text # "" THEN <<Healthy>> ELSE <<>>]
    /\ resp' = NoResp
    /\ outbox' = <<>>
    /\ dropped' = {}
    /\ UNCHANGED <<vendors, resins, bottles, nextId, sess, now, subs, conn>>

\* receive_text raises WebSocketDisconnect: the except clause deregisters the connection.
WsDisconnect(c) ==
    /\ conn[c].pc = "open"
    /\ conn' = [conn EXCEPT ![c].pc = "done"]
    /\ subs' = ws_disconnect(conn[c].topic, c)
    /\ resp' = NoResp
    /\ outbox' = <<>>
    /\ dropped' = {}
    /\ inbox' = [d \in Conns |-> <<>>]
    /\ UNCHANGED <<vendors, resins, bottles, nextId, sess, now>>

\* The loop ends by any other exception (receive_text on a binary frame, a failed
\* send_json, cancellation): no except clause catches it.
WsError(c) ==
    /\ conn[c].pc = "open"
    /\ conn' = [conn EXCEPT ![c].pc = "done"]
    /\ resp' = NoResp
    /\ outbox' = <<>>
    /\ dropped' = {}
    /\ inbox' = [d \in Conns |-> <<>>]
    /\ UNCHANGED <<vendors, resins, bottles, nextId, sess, now, subs>>

\* ------------------------------------------------------------------ inputs
\* Optional[float] request fields with values in W.
Opt(W) == {None} \cup {Some(w) : w \in W}

\* The weights a request may carry: every value from one below zero to one above MaxWeight,
\* and a selection of them for the specifications that run every handler together.
Weights == -1..(MaxWeight + 1)
FewWeights == {-1, 1, MaxWeight + 1}
Deltas == (0 - MaxWeight)..MaxWeight
FewDeltas == {0 - MaxWeight, -1, 1}

\* The descriptive fields of a create body: the defaults, or every one of them set.
DefaultExtras == [first_used |-> None, last_used |-> None, location |-> None, archived |-> FALSE]
Extras ==
    {DefaultExtras,
     [first_used |-> Some(0), last_used |-> Some(0), location |-> Some("shelf"), archived |-> TRUE]}

CreateBody(rid, rem, used, x) ==
    [resin_id |-> rid, remaining_weight |-> rem, used_weight |-> used,
     first_used |-> x.first_used, last_used |-> x.last_used,
     location |-> x.location, archived |-> x.archived]

CreateBodies(R, U, X) ==
    {CreateBody(rid, rem, used, x) :
        rid \in ResinIds \cup {NoSuchResin}, rem \in Opt(R), used \in Opt(U), x \in X}

UseBodies(L, D) == {[use_length |-> l, use_weight |-> w] : l \in Opt(L), w \in Opt(D)}

\* The values a PATCH body may give each field, weights in W.
PatchValues(k, W) ==
    IF k = "resin_id" THEN Opt(ResinIds \cup {NoSuchResin})
    ELSE IF k = "remaining_weight" THEN {Some(w) : w \in W}
    ELSE IF k = "used_weight" THEN {Some(w) : w \in W}
    ELSE IF k = "location" THEN {None, Some("shelf")}
    ELSE IF k = "archived" THEN {Some(TRUE), Some(FALSE)}
    ELSE Opt(Times)

PatchKeys == {PatchOrder[i] : i \in 1..Len(PatchOrder)}

\* The PATCH bodies that set exactly the fields K.
RECURSIVE PatchesOver(_, _)
PatchesOver(K, W) ==
    IF K = {} THEN {<<>>}
    ELSE LET k == CHOOSE x \in K : TRUE IN
         {(k :> v) @@ f : v \in PatchValues(k, W), f \in PatchesOver(K \ {k}, W)}

\* ------------------------------------------------------------------ system
\* req is the observation of the step just taken: the request the step served.  A
\* specification records as much of the request as its properties speak about.
Request(op, id, body) == [op |-> op, id |-> id, body |-> body]
NoReq == Request("", 0, None)
NoHist == [u0 |-> 0, deltas |-> <<>>]

\* The resin table: resin 1 has every optional column set, resin 2 has none of them.
\* A str is the sequence of its chunks (see the section on strings).
InitResins ==
    (1 :> [vendor_id |-> Some(1), weight |-> Some(MaxWeight), diameter |-> 1, density |-> 1,
           name |-> Some(<<"A", "b">>), color_hex |-> Some(<<"8", "0">>)])
    @@ (2 :> [vendor_id |-> None, weight |-> None, diameter |-> 1, density |-> 2,
              name |-> None, color_hex |-> None])

Init ==
    /\ vendors = VendorIds
    /\ resins = InitResins
    /\ bottles = <<>>
    /\ nextId = 1
    /\ sess = [p \in Sessions |-> IdleSession]
    /\ now = 0
    /\ subs = [t \in Topics |-> {}]
    /\ conn = [c \in Conns |-> NewConn]
    /\ req = NoReq
    /\ resp = NoResp
    /\ outbox = <<>>
    /\ dropped = {}
    /\ inbox = [c \in Conns |-> <<>>]
    /\ hist = NoHist

Served(op, id) == req' = Request(op, id, None) /\ UNCHANGED hist
ServedBody(op, id, body) == req' = Request(op, id, Some(body)) /\ UNCHANGED hist
Internal == req' = NoReq /\ UNCHANGED hist

\* The ids a request may name: every stored id and one without row.
AnyBottleId == 1..NoSuchId
AnyResinId == ResinIds \cup {NoSuchResin}
\* A stored bottle and an id without row.
OneBottleId == {1, NoSuchId}

\* The requests of Spec.
CreateRequests == CreateBodies({MaxWeight + 1}, {-1}, {DefaultExtras})
UpdateRequests ==
    UNION {PatchesOver({k}, FewWeights) : k \in {"resin_id", "remaining_weight", "used_weight"}}
UseRequests == UseBodies({1}, FewDeltas)

\* The mutation handlers of bottles, any number of requests in any interleaving.
Next ==
    \/ \E body \in CreateRequests : Create(body) /\ Served("create", 0)
    \/ \E data \in UpdateRequests : Update(1, data) /\ Served("update", 1)
    \/ \E p \in Sessions, id \in OneBottleId : Delete(p, id) /\ Served("delete", id)
    \/ \E p \in Sessions : SessionCommit(p) /\ Internal
    \/ \E p \in Sessions, body \in UseRequests : Use(p, 1, body) /\ Served("use", 1)
    \/ \E p \in Sessions : UseFinish(p) /\ Served("use", sess[p].id)

Spec == Init /\ [][Next]_vars

\* Deletion of bottles, resins and vendors, with the creates that make a resin referenced.
NextDelete ==
    \/ \E body \in CreateBodies({1}, {1}, Extras) : Create(body) /\ Served("create", 0)
    \/ \E p \in Sessions, id \in AnyBottleId : Delete(p, id) /\ Served("delete", id)
    \/ \E p \in Sessions : SessionCommit(p) /\ Internal
    \/ \E id \in AnyResinId : ResinDelete(id) /\ Served("resin_delete", id)
    \/ \E id \in VendorIds \cup {Cardinality(VendorIds) + 1} : VendorDelete(id) /\ Served("vendor_delete", id)

SpecDelete == Init /\ [][NextDelete]_vars

\* POST /bottle with every body, the request recorded in full.
NextCreate ==
    \E body \in CreateBodies(Weights, {-1, 0, MaxWeight}, {DefaultExtras}) :
        Create(body) /\ ServedBody("create", 0, body)

SpecCreate == Init /\ [][NextCreate]_vars

\* A store that holds every bottle id, as creates leave it: used_weight u \in U on resin rid \in R.
Stocked(R, U) ==
    /\ vendors = VendorIds
    /\ resins = InitResins
    /\ \E rid \in R, u \in U :
          bottles = [i \in BottleIds |-> BottleRow(rid, u, None, None, None, Some(FALSE))]
    /\ nextId = MaxBottles + 1
    /\ sess = [p \in Sessions |-> IdleSession]
    /\ now = 0
    /\ subs = [t \in Topics |-> {}]
    /\ conn = [c \in Conns |-> NewConn]
    /\ req = NoReq
    /\ resp = NoResp
    /\ outbox = <<>>
    /\ dropped = {}
    /\ inbox = [c \in Conns |-> <<>>]
    /\ hist = [u0 |-> bottles[1].used_weight, deltas |-> <<>>]

InitStocked == Stocked(ResinIds, 0..MaxWeight)

\* PUT /bottle/{id}/use with every body, the request recorded in full.
NextUse ==
    \/ \E p \in Sessions, id \in OneBottleId, body \in UseBodies({-1, 1}, Deltas) :
          Use(p, id, body) /\ ServedBody("use", id, body)
    \/ \E p \in Sessions : UseFinish(p) /\ Served("use", sess[p].id)

SpecUse == InitStocked /\ [][NextUse]_vars

\* Largest number of consume calls in one behaviour of SpecConsume.
MaxCalls == 2

\* Consume by weight on bottle 1 from any session; hist records the delta of every
\* UPDATE in the order the store executed them.
NextConsume ==
    \/ \E p \in Sessions, w \in Deltas :
          /\ Len(hist.deltas) < MaxCalls
          /\ Use(p, 1, [use_length |-> None, use_weight |-> Some(w)])
          /\ req' = Request("use", 1, None)
          /\ hist' = [hist EXCEPT !.deltas = Append(@, w)]
    \/ \E p \in Sessions : UseFinish(p) /\ Served("use", sess[p].id)
    \/ Tick /\ Internal

SpecConsume == InitStocked /\ [][NextConsume]_vars

\* The websocket endpoints of bottles, with an update of bottles, which publishes, and a
\* delete of resins.
InitWs == Stocked({1}, {0})

NextWs ==
    \/ \E c \in Conns, topic \in BottleEndpointTopics : WsConnect(c, topic) /\ Internal
    \/ \E c \in Conns, text \in {"", "ping"} : WsReceive(c, text) /\ Internal
    \/ \E c \in Conns : WsDisconnect(c) /\ Internal
    \/ \E c \in Conns : WsError(c) /\ Internal
    \/ \E id \in OneBottleId : Update(id, "used_weight" :> Some(1)) /\ Internal
    \/ \E id \in AnyResinId : ResinDelete(id) /\ Internal

SpecWs == InitWs /\ [][NextWs]_vars

\* ------------------------------------------------------------------ C1
RECURSIVE Sum(_)
Sum(s) == IF Len(s) = 0 THEN 0 ELSE Head(s) + Sum(Tail(s))

\* used := max(used + d, 0) applied once for every delta of s, in order.
RECURSIVE Composed(_, _)
Composed(u, s) == IF Len(s) = 0 THEN u ELSE Composed(max(u + Head(s), 0), Tail(s))

SameSign(s) == (\A i \in 1..Len(s) : s[i] >= 0) \/ (\A i \in 1..Len(s) : s[i] <= 0)

\* Every consume call has committed.
Quiescent == \A p \in Sessions : sess[p].pc = "idle"

\* C1 as stated: after the consume calls with deltas d1..dN on a bottle that started
\* at U0 have all finished, used_weight = max(U0 + d1 + ... + dN, 0).
C1_FinalIsClampedSum ==
    Quiescent => bottles[1].used_weight = max(hist.u0 + Sum(hist.deltas), 0)

\* C1, amended: after the calls have all finished, used_weight is the result of
\* used := max(used + di, 0) applied once for every call in the order the store
\* executed the UPDATEs, no update lost; this is max(U0 + d1 + ... + dN, 0) when the
\* deltas all have the same sign.
C1_FinalIsComposedClamp ==
    Quiescent =>
        /\ bottles[1].used_weight = Composed(hist.u0, hist.deltas)
        /\ SameSign(hist.deltas) => bottles[1].used_weight = max(hist.u0 + Sum(hist.deltas), 0)

\* MaxCalls calls have finished, the first one clamped at zero and a later one added
\* to the clamped value.
C1_Witness ==
    /\ Quiescent
    /\ Len(hist.deltas) = MaxCalls
    /\ hist.u0 + hist.deltas[1] < 0
    /\ hist.deltas[MaxCalls] > 0
    /\ bottles[1].used_weight > 0

\* ------------------------------------------------------------------ C2
\* C2: in every reachable state, after any sequence of create, update, consume by
\* weight, consume by length and delete, the stored used_weight of every bottle is >= 0.
C2_UsedWeightNeverNegative == \A id \in DOMAIN bottles : bottles[id].used_weight >= 0

\* A consume has just answered 200 and left the bottle at used_weight 0: every delta
\* the specification offers is non-zero, so a negative one was applied.
C2_Witness ==
    /\ req.op = "use"
    /\ resp.status = 200
    /\ req.id \in DOMAIN bottles
    /\ bottles[req.id].used_weight = 0

\* ------------------------------------------------------------------ C3
\* Event e is among the messages the last step sent to connection c.
Received(c, e) == \E k \in 1..Len(inbox[c]) : inbox[c][k] = e

\* C3: a connection registered by notify_any under ("bottle",) receives every event
\* published for a bottle on ("bottle", str(id)); a connection registered by notify
\* for another bottle does not receive it.
C3_TypeWideReceivesSiblingDoesNot ==
    \A i \in 1..Len(outbox) : \A c \in Conns :
        (outbox[i].resource = "bottle" /\ conn[c].pc = "open") =>
            /\ conn[c].topic = notify_any_topic => Received(c, outbox[i])
            /\ \A j \in 1..NoSuchId :
                  (j # outbox[i].payload.id /\ conn[c].topic = notify_topic(j))
                      => ~Received(c, outbox[i])

\* An event of bottle 1 was published while one connection listens to all bottles and
\* another to a different bottle: the first got it, the second got nothing.
C3_Witness ==
    /\ Len(outbox) = 1
    /\ outbox[1].resource = "bottle"
    /\ \E c, d \in Conns :
          /\ conn[c].pc = "open" /\ conn[c].topic = <<"bottle">>
          /\ Received(c, outbox[1])
          /\ conn[d].pc = "open" /\ conn[d].topic = <<"bottle", str(outbox[1].payload.id + 1)>>
          /\ inbox[d] = <<>>

\* ------------------------------------------------------------------ C4
\* C4: once the loop of a websocket endpoint has ended, for whatever reason, the
\* connection is registered under no topic.
C4_NoDanglingRegistration ==
    \A c \in Conns : conn[c].pc = "done" => \A t \in Topics : c \notin subs[t]

\* ------------------------------------------------------------------ C5
\* The request of the step is the delete of a resin a bottle references, or of a
\* vendor a resin references.
DeleteOfReferenced ==
    \/ req'.op = "resin_delete" /\ req'.id \in DOMAIN resins /\ BottlesOf(req'.id) # {}
    \/ req'.op = "vendor_delete" /\ req'.id \in vendors /\ ResinsOf(req'.id) # {}

\* C5: deleting a resin (a vendor) that a row still references answers 403, leaves
\* every row as it was and publishes no event.
C5_BlockedDeleteChangesNothing ==
    [][DeleteOfReferenced =>
          /\ resp'.status = 403
          /\ resins' = resins /\ vendors' = vendors /\ bottles' = bottles
          /\ outbox' = <<>>]_vars

\* The delete of a resin that a bottle references has just been refused.
C5_Witness ==
    /\ req.op = "resin_delete"
    /\ resp.status = 403
    /\ req.id \in DOMAIN resins
    /\ BottlesOf(req.id) # {}

\* ------------------------------------------------------------------ C6
\* The change an event describes is in the committed store.
Committed(e) ==
    IF e.resource = "bottle"
    THEN IF e.type = "DELETED" THEN e.payload.id \notin DOMAIN bottles
         ELSE e.payload.id \in DOMAIN bottles /\ bottles[e.payload.id] = e.payload.row
    ELSE IF e.resource = "resin"
    THEN IF e.type = "DELETED" THEN e.payload.id \notin DOMAIN resins
         ELSE e.payload.id \in DOMAIN resins
    ELSE e.type = "DELETED" => e.payload.id \notin vendors

\* C6: a change event is published only after the change is committed: whenever a
\* step has published an event, the store holds the change the event describes.
C6_PublishedAfterCommit == \A i \in 1..Len(outbox) : Committed(outbox[i])

\* ------------------------------------------------------------------ C7
\* The last step answered a create with 200.
Created == req.op = "create" /\ req.body # None /\ resp.status = 200

\* C7: a create with remaining_weight R and no used_weight on a resin of weight C
\* stores used_weight max(C - R, 0); a create with neither stores used_weight 0.
C7_CreateStoresUsedWeight ==
    Created =>
        LET body == Val(req.body)
            id == Val(resp.payload).id IN
        /\ id \in DOMAIN bottles
        /\ (body.used_weight = None /\ body.remaining_weight # None) =>
              /\ resins[body.resin_id].weight # None
              /\ bottles[id].used_weight =
                    max(Val(resins[body.resin_id].weight) - Val(body.remaining_weight), 0)
        /\ (body.used_weight = None /\ body.remaining_weight = None) =>
              bottles[id].used_weight = 0

\* A create with a remaining_weight above the resin's weight was stored, clamped at 0.
C7_Witness ==
    /\ Created
    /\ Val(req.body).used_weight = None
    /\ Val(req.body).remaining_weight # None
    /\ Val(Val(req.body).remaining_weight) > Val(resins[Val(req.body).resin_id].weight)
    /\ bottles[Val(resp.payload).id].used_weight = 0

\* ------------------------------------------------------------------ C8
\* C8: a create that gives both remaining_weight and used_weight is answered with a
\* validation error; no bottle is created and no event is published.
C8_CreateWithBothRejected ==
    [][(req'.op = "create" /\ req'.body # None
          /\ Val(req'.body).remaining_weight # None /\ Val(req'.body).used_weight # None)
        => /\ resp'.status \in {400, 422}
           /\ bottles' = bottles /\ nextId' = nextId
           /\ outbox' = <<>>]_vars

\* A create with two valid weights on an existing resin has just been answered 400.
C8_Witness ==
    /\ req.op = "create" /\ req.body # None
    /\ Val(req.body).remaining_weight # None /\ Val(Val(req.body).remaining_weight) >= 0
    /\ Val(req.body).used_weight # None /\ Val(Val(req.body).used_weight) >= 0
    /\ Val(req.body).resin_id \in DOMAIN resins
    /\ resins[Val(req.body).resin_id].weight # None
    /\ resp.status = 400

\* ------------------------------------------------------------------ C9
\* The create body gives remaining_weight and names a resin that has no weight.
RemainingWithoutCapacity(body) ==
    /\ body.remaining_weight # None
    /\ body.resin_id \in DOMAIN resins
    /\ resins[body.resin_id].weight = None

\* C9: a create that gives remaining_weight on a resin without weight is answered
\* with a client error; no bottle is stored (none with used_weight 0 either) and no
\* event is published.
C9_CreateWithoutCapacityRejected ==
    [][(req'.op = "create" /\ req'.body # None /\ RemainingWithoutCapacity(Val(req'.body)))
        => /\ resp'.status \in {400, 422}
           /\ bottles' = bottles /\ nextId' = nextId
           /\ outbox' = <<>>]_vars

\* A create with a valid remaining_weight alone, on a resin without weight, has just
\* been answered 400.
C9_Witness ==
    /\ req.op = "create" /\ req.body # None
    /\ RemainingWithoutCapacity(Val(req.body))
    /\ Val(Val(req.body).remaining_weight) >= 0
    /\ Val(req.body).used_weight = None
    /\ resp.status = 400

\* ------------------------------------------------------------------ C10
BothOrNeither(body) == (body.use_weight # None) <=> (body.use_length # None)

\* C10: a use request with both use_weight and use_length, or with neither, is
\* answered 400 and changes nothing: no row, no pending UPDATE, no event.  A request
\* with exactly one of them is not refused as invalid, and on an existing bottle its
\* UPDATE is executed.
C10_UseNeedsExactlyOne ==
    [][(req'.op = "use" /\ req'.body # None) =>
          IF BothOrNeither(Val(req'.body))
          THEN /\ resp'.status = 400
               /\ bottles' = bottles /\ sess' = sess
               /\ outbox' = <<>>
          ELSE /\ resp'.status \notin {400, 422}
               /\ req'.id \in DOMAIN bottles =>
                     \E p \in Sessions :
                        sess[p].pc = "idle" /\ sess'[p].pc = "use" /\ sess'[p].used # None]_vars

\* A use request with both deltas on an existing bottle has just been answered 400.
C10_Witness ==
    /\ req.op = "use" /\ req.body # None
    /\ Val(req.body).use_weight # None /\ Val(req.body).use_length # None
    /\ req.id \in DOMAIN bottles
    /\ resp.status = 400

\* ================================================================== find
\* ------------------------------------------------------------------ strings
\* A str is the sequence of its chunks.  A chunk is a separator character
\* ("," or ":") or a run of characters without separator; the runs of the
\* filter terms are single letters, so that "contains" is the substring test.

\* str.upper() and str.lower() on one chunk.
upper_chunk(c) ==
    IF c \in {"asc", "Asc"} THEN "ASC"
    ELSE IF c \in {"desc", "Desc"} THEN "DESC"
    ELSE IF c = "up" THEN "UP"
    ELSE IF c = "a" THEN "A"
    ELSE IF c = "b" THEN "B"
    ELSE c

lower_chunk(c) ==
    IF c = "A" THEN "a"
    ELSE IF c = "B" THEN "b"
    ELSE c

RECURSIVE upper(_)
upper(s) == IF s = <<>> THEN <<>> ELSE <<upper_chunk(Head(s))>> \o upper(Tail(s))

RECURSIVE lower(_)
lower(s) == IF s = <<>> THEN <<>> ELSE <<lower_chunk(Head(s))>> \o lower(Tail(s))

\* str.split(sep): the list of the pieces between the separators; "" gives [""].
RECURSIVE split(_, _)
split(s, sep) ==
    IF \A i \in 1..Len(s) : s[i] # sep THEN <<s>>
    ELSE LET i == CHOOSE k \in 1..Len(s) : s[k] = sep /\ \A j \in 1..(k - 1) : s[j] # sep
         IN  <<SubSeq(s, 1, i - 1)>> \o split(SubSeq(s, i + 1, Len(s)), sep)

\* needle occurs in hay.
contains(hay, needle) ==
    \E i \in 0..(Len(hay) - Len(needle)) : SubSeq(hay, i + 1, i + Len(needle)) = needle

\* field.ilike("%term%") on a nullable column: NULL matches no pattern.
ilike(field, term) == field # None /\ contains(lower(Val(field)), lower(term))

\* add_where_clause_str_opt (spoolman.database.utils): the row passes when no filter
\* is given, or when one entry of the comma-separated list matches: an empty entry
\* matches a NULL field, another entry matches case-insensitively as a substring.
add_where_clause_str_opt(field, value) ==
    value = None
    \/ \E k \in 1..Len(split(Val(value), ",")) :
          LET term == split(Val(value), ",")[k]
          IN  IF term = <<>> THEN field = None ELSE ilike(field, term)

\* add_where_clause_str (spoolman.database.utils), which find applies to Vendor.name:
\* the same partial-string filter.
add_where_clause_str(field, value) == add_where_clause_str_opt(field, value)

\* Vendor.name of the vendor table.
VendorName == (1 :> <<"A", "c">>)

\* ------------------------------------------------------------------ bottle.find
\* The store of the find queries holds up to MaxRows bottles.
MaxRows == 2

\* bottle.find with the vendor inner-joined: a bottle whose resin has no vendor is lost.
find_join_inner == {i \in DOMAIN bottles : resins[bottles[i].resin_id].vendor_id # None}

\* bottle.find, the rows of select(Bottle).join(resin, isouter).join(vendor, isouter):
\* one per bottle, with NULL vendor columns when the resin has no vendor.
find_join == DOMAIN bottles

\* The columns of the joined row of bottle i that the filters read.
vendor_name_of(i) ==
    IF resins[bottles[i].resin_id].vendor_id = None THEN None
    ELSE Some(VendorName[Val(resins[bottles[i].resin_id].vendor_id)])

resin_name_of(i) == resins[bottles[i].resin_id].name

\* bottle.find without the IS NULL alternative: only archived = false passes.
find_archived_false_only(i, allow_archived) ==
    allow_archived \/ bottles[i].archived = Some(FALSE)

\* bottle.find, "if not allow_archived: where(archived IS false OR archived IS NULL)".
find_archived(i, allow_archived) ==
    allow_archived \/ bottles[i].archived = Some(FALSE) \/ bottles[i].archived = None

\* bottle.find, the where clauses: the ids of the rows that pass every filter of query q.
\* resin_material and lot_nr are filtered exactly like resin_name and location; the
\* integer filters resin_id and vendor_id are left at their default (no filter).
find_where(q) ==
    {i \in find_join :
        /\ add_where_clause_str(vendor_name_of(i), q.vendor_name)
        /\ add_where_clause_str_opt(resin_name_of(i), q.resin_name)
        /\ add_where_clause_str_opt(bottles[i].location, q.location)
        /\ find_archived(i, q.allow_archived)}

\* ------------------------------------------------------------------ sort
\* SortOrder (spoolman.database.utils): the names of the enum members.
SortOrder == {"ASC", "DESC"}

\* api find, one sort_item: "field, direction = sort_item.split(':')" raises ValueError
\* unless there are exactly two pieces, SortOrder[direction.upper()] raises KeyError
\* unless the direction names a member.
parse_sort_item(item) ==
    IF Len(split(item, ":")) # 2 THEN Raise("ValueError")
    ELSE IF ~ \E o \in SortOrder : upper(split(item, ":")[2]) = <<o>> THEN Raise("KeyError")
    ELSE Ok([field |-> split(item, ":")[1], order |-> upper(split(item, ":")[2])[1]])

\* sort_by[field] = order on the dict sort_by: a known key keeps its place.
dict_set(sort_by, entry) ==
    IF \E k \in 1..Len(sort_by) : sort_by[k].field = entry.field
    THEN [k \in 1..Len(sort_by) |-> IF sort_by[k].field = entry.field THEN entry ELSE sort_by[k]]
    ELSE Append(sort_by, entry)

\* api find, "for sort_item in sort.split(',')" from item i on.
RECURSIVE parse_sort_items(_, _, _)
parse_sort_items(items, i, sort_by) ==
    IF i > Len(items) THEN Ok(sort_by)
    ELSE IF parse_sort_item(items[i]).raise # "" THEN parse_sort_item(items[i])
    ELSE parse_sort_items(items, i + 1, dict_set(sort_by, parse_sort_item(items[i]).value))

\* api find, the sort parameter turned into sort_by ({} when there is none).
parse_sort(sort) ==
    IF sort = None THEN Ok(<<>>) ELSE parse_sort_items(split(Val(sort), ","), 1, <<>>)

\* parse_nested_field (spoolman.database.utils): the field paths of models.Bottle that
\* resolve to a column; another path is an error.
BottleFields == {<<"id">>, <<"used_weight">>}

\* bottle.find, the column a sort entry orders by: the label remaining_weight is
\* Resin.weight - Bottle.used_weight, NULL when the resin has no weight.
sort_key(i, field) ==
    IF field = <<"remaining_weight">>
    THEN IF resins[bottles[i].resin_id].weight = None THEN None
         ELSE Some(Val(resins[bottles[i].resin_id].weight) - bottles[i].used_weight)
    ELSE IF field = <<"id">> THEN Some(i)
    ELSE Some(bottles[i].used_weight)

\* bottle.find, whether every entry of sort_by names remaining_weight or a column.
sort_resolves(sort_by) ==
    \A k \in 1..Len(sort_by) :
        sort_by[k].field = <<"remaining_weight">> \/ sort_by[k].field \in BottleFields

\* No sort key is as large as KeyBound in absolute value.
KeyBound == MaxWeight + MaxRows + 2

\* The place of bottle i under one entry of sort_by.  Where NULL sorts depends on the
\* database: below every value (nulls_smallest) or above every value.
sort_rank(i, entry, nulls_smallest) ==
    IF sort_key(i, entry.field) = None
    THEN IF (entry.order = "ASC") = nulls_smallest THEN 0 - KeyBound ELSE KeyBound
    ELSE IF entry.order = "ASC" THEN Val(sort_key(i, entry.field))
    ELSE 0 - Val(sort_key(i, entry.field))

\* Row a may come before row b under the entries of sort_by from entry k on.
RECURSIVE order_by(_, _, _, _, _)
order_by(a, b, sort_by, k, nulls_smallest) ==
    IF k > Len(sort_by) THEN TRUE
    ELSE IF sort_rank(a, sort_by[k], nulls_smallest) < sort_rank(b, sort_by[k], nulls_smallest) THEN TRUE
    ELSE IF sort_rank(a, sort_by[k], nulls_smallest) > sort_rank(b, sort_by[k], nulls_smallest) THEN FALSE
    ELSE order_by(a, b, sort_by, k + 1, nulls_smallest)

\* The orders in which the database may visit the rows of the store.
Scans == {scan \in [1..Cardinality(DOMAIN bottles) -> DOMAIN bottles] :
             \A i, j \in 1..Cardinality(DOMAIN bottles) : scan[i] = scan[j] => i = j}

\* The rows of the store in the order of their ids.
ById == [i \in 1..Cardinality(DOMAIN bottles) |-> i]

\* The rows that pass the filters, in the order the database produces them; the
\* ORDER BY clauses demand Sorted of it.
Selected(q, scan) ==
    LET Passes(i) == i \in find_where(q) IN SelectSeq([k \in 1..Len(scan) |-> scan[k]], Passes)

Sorted(rows, sort_by, nulls_smallest) ==
    \A i, j \in 1..Len(rows) : i < j => order_by(rows[i], rows[j], sort_by, 1, nulls_smallest)

\* ------------------------------------------------------------------ page
min(a, b) == IF a < b THEN a ELSE b

\* bottle.find, "stmt.offset(offset).limit(limit)" when a limit is given.
find_page(rows, limit, offset) ==
    IF limit = None THEN rows
    ELSE SubSeq(rows, offset + 1, min(offset + Val(limit), Len(rows)))

\* bottle.find with the rows counted after the page is cut.
find_total_count_of_page(q, result) == Len(result)

\* bottle.find, total_count: the count query over the filtered rows when a limit is
\* given, else len(result).
find_total_count(q, result) ==
    IF q.limit # None THEN Cardinality(find_where(q)) ELSE Len(result)

\* bottle.find on the selected rows: (result, total_count).
find(q, rows) ==
    [items |-> find_page(rows, q.limit, q.offset),
     total_count |-> find_total_count(q, find_page(rows, q.limit, q.offset))]

\* api find: GET /bottle with query q.  An exception of the sort parsing is not
\* caught and leaves as an internal server error; the items and the x-total-count
\* header are the payload of the answer.
Find(q, scan, nulls_smallest) ==
    \E sort_by \in {parse_sort(q.sort)} :
        IF sort_by.raise # "" THEN Reject(500)
        ELSE IF ~ sort_resolves(sort_by.value) THEN Reject(422)
        ELSE /\ Sorted(Selected(q, scan), sort_by.value, nulls_smallest)
             /\ resp' = Response(200, Some(find(q, Selected(q, scan))))
             /\ Publish(<<>>)
             /\ UNCHANGED <<vendors, resins, bottles, nextId, sess, now, conn>>

\* ------------------------------------------------------------------ find inputs
\* A find query; a filter that is not given is None.
FindQuery(vendor_name, resin_name, location, allow_archived, sort, limit, offset) ==
    [vendor_name |-> vendor_name, resin_name |-> resin_name, location |-> location,
     allow_archived |-> allow_archived, sort |-> sort, limit |-> limit, offset |-> offset]

\* A store of n <= MaxRows bottles whose rows are drawn from Rows.
Shelved(Rows) ==
    /\ vendors = VendorIds
    /\ resins = InitResins
    /\ \E n \in 0..MaxRows : bottles \in [1..n -> Rows]
    /\ nextId = Cardinality(DOMAIN bottles) + 1
    /\ sess = [p \in Sessions |-> IdleSession]
    /\ now = 0
    /\ subs = [t \in Topics |-> {}]
    /\ conn = [c \in Conns |-> NewConn]
    /\ req = NoReq
    /\ resp = NoResp
    /\ outbox = <<>>
    /\ dropped = {}
    /\ inbox = [c \in Conns |-> <<>>]
    /\ hist = NoHist

\* Pages: rows that differ in archived, queries over every limit and offset.
PageRows == {BottleRow(1, 0, None, None, None, a) : a \in {Some(FALSE), Some(TRUE)}}
PageQueries ==
    {FindQuery(None, None, None, a, None, l, o) :
        a \in BOOLEAN, l \in Opt(0..MaxRows), o \in 0..MaxRows}

NextPage == \E q \in PageQueries, scan \in Scans : Find(q, scan, TRUE) /\ ServedBody("find", 0, q)
SpecPage == Shelved(PageRows) /\ [][NextPage]_vars

\* ------------------------------------------------------------------ C11
\* The ids of a sequence of rows.
Range(rows) == {rows[k] : k \in 1..Len(rows)}

\* The answer of the find request just served.
Found == Val(resp.payload)

\* C11: a find with limit L and offset O over T rows that pass the filters returns a
\* page of exactly max(0, min(L, T - O)) distinct passing rows and reports the total
\* T; a find without limit returns every passing row once, whatever the offset, and
\* reports their number.
C11_PageLengthAndTotal ==
    (req.op = "find" /\ resp.status = 200) =>
        LET q == Val(req.body)
            T == Cardinality(find_where(q))
        IN  /\ Range(Found.items) \subseteq find_where(q)
            /\ Cardinality(Range(Found.items)) = Len(Found.items)
            /\ IF q.limit # None
               THEN /\ Len(Found.items) = max(0, min(Val(q.limit), T - q.offset))
                    /\ Found.total_count = T
               ELSE /\ Range(Found.items) = find_where(q)
                    /\ Found.total_count = Len(Found.items)

\* A page of one row has been cut from the second of two passing rows.
C11_Witness ==
    /\ req.op = "find" /\ resp.status = 200
    /\ Val(req.body).limit = Some(1) /\ Val(req.body).offset = 1
    /\ Cardinality(find_where(Val(req.body))) = 2
    /\ Len(Found.items) = 1 /\ Found.total_count = 2

\* ------------------------------------------------------------------ filters
\* Filters: rows on the resin with vendor and name that differ in location and
\* archived, and rows on the resin without them; queries with one partial-string
\* filter at most, which is the empty string, one letter, or a list with an empty entry.
FilterRows ==
    {BottleRow(1, 0, None, None, loc, a) :
        loc \in {None, Some(<<"a", "B">>)}, a \in {None, Some(FALSE), Some(TRUE)}}
        \cup {BottleRow(2, 0, None, None, None, a) : a \in {None, Some(TRUE)}}
StrFilters == {Some(<<>>), Some(<<"b">>), Some(<<"x", ",">>)}
FilterQueries ==
    {FindQuery(None, None, None, a, None, None, 0) : a \in BOOLEAN}
        \cup {FindQuery(v, None, None, a, None, None, 0) : v \in StrFilters, a \in BOOLEAN}
        \cup {FindQuery(None, v, None, a, None, None, 0) : v \in StrFilters, a \in BOOLEAN}
        \cup {FindQuery(None, None, v, a, None, None, 0) : v \in StrFilters, a \in BOOLEAN}

NextFilter == \E q \in FilterQueries : Find(q, ById, TRUE) /\ ServedBody("find", 0, q)
SpecFilter == Shelved(FilterRows) /\ [][NextFilter]_vars

\* ------------------------------------------------------------------ C16
\* C16: a find without allow_archived returns exactly the rows that pass the other
\* filters and whose archived is false or unset, never an archived one; with
\* allow_archived it returns exactly the rows that pass the other filters, the
\* archived ones among them.
C16_ArchivedExcludedUnlessAllowed ==
    (req.op = "find" /\ resp.status = 200) =>
        LET q == Val(req.body)
            others == find_where([q EXCEPT !.allow_archived = TRUE])
        IN  Range(Found.items) =
                {i \in others : q.allow_archived \/ bottles[i].archived \in {None, Some(FALSE)}}

\* A find without allow_archived over an archived row and a row with archived unset
\* has returned the second and not the first.
C16_Witness ==
    /\ req.op = "find" /\ resp.status = 200 /\ ~Val(req.body).allow_archived
    /\ \E i, j \in DOMAIN bottles :
          /\ bottles[i].archived = Some(TRUE) /\ bottles[j].archived = None
          /\ {i, j} \subseteq find_where([Val(req.body) EXCEPT !.allow_archived = TRUE])
          /\ i \notin Range(Found.items) /\ j \in Range(Found.items)

\* ------------------------------------------------------------------ C18
StrFilterNames == {"vendor_name", "resin_name", "location"}

\* The field of bottle i that filter f reads is null; for vendor_name: the resin has no vendor.
NullField(i, f) ==
    IF f = "vendor_name" THEN resins[bottles[i].resin_id].vendor_id = None
    ELSE IF f = "resin_name" THEN resins[bottles[i].resin_id].name = None
    ELSE bottles[i].location = None

\* The comma-separated list of filter f of query q has an empty entry.
HasEmptyEntry(q, f) ==
    q[f] # None /\ \E k \in 1..Len(split(Val(q[f]), ",")) : split(Val(q[f]), ",")[k] = <<>>

\* Bottle i passes every filter of q but f.
PassesOthers(i, q, f) ==
    /\ f # "vendor_name" => add_where_clause_str(vendor_name_of(i), q.vendor_name)
    /\ f # "resin_name" => add_where_clause_str_opt(resin_name_of(i), q.resin_name)
    /\ f # "location" => add_where_clause_str_opt(bottles[i].location, q.location)
    /\ q.allow_archived \/ bottles[i].archived # Some(TRUE)

SortRows == {BottleRow(rid, u, None, None, None, Some(FALSE)) : rid \in ResinIds, u \in {0, MaxWeight + 1}}
GoodSorts ==
    {<<"id", ":", "asc">>, <<"id", ":", "Desc">>, <<"used_weight", ":", "desc">>,
     <<"remaining_weight", ":", "asc">>,
     <<"remaining_weight", ":", "desc", ",", "id", ":", "asc">>}
BadSorts ==
    {<<"id">>, <<"id", ":", "asc", ":", "asc">>, <<"id", ":", "up">>,
     <<"id", ":", "asc", ",">>, <<>>, <<"nope", ":", "asc">>}
SortQueries ==
    {FindQuery(None, None, None, FALSE, sort, None, 0) : sort \in Opt(GoodSorts \cup BadSorts)}

NextSort ==
    \E q \in SortQueries, scan \in Scans, nulls_smallest \in BOOLEAN :
        Find(q, scan, nulls_smallest) /\ ServedBody("find", 0, q)
SpecSort == Shelved(SortRows) /\ [][NextSort]_vars

\* ------------------------------------------------------------------ C19
\* An item of a sort specification is not "field:direction" with a direction asc or
\* desc and a field that is a column or remaining_weight.
BadItem(item) ==
    \/ Len(split(item, ":")) # 2
    \/ lower(split(item, ":")[2]) \notin {<<"asc">>, <<"desc">>}
    \/ split(item, ":")[1] \notin BottleFields \cup {<<"remaining_weight">>}

BadSort(sort) ==
    sort # None /\ \E k \in 1..Len(split(Val(sort), ",")) : BadItem(split(Val(sort), ",")[k])

\* C19: a find whose sort specification is malformed or names an unresolvable field
\* is answered with a validation error (422) and no page.
C19_BadSortIsValidationError ==
    (req.op = "find" /\ BadSort(Val(req.body).sort)) =>
        resp.status = 422 /\ resp.payload = None

\* ================================================================== resin find by color
\* spoolman.math: a color_hex is the str of the two hexadecimal digits of one channel;
\* hex_to_rgb reads the channel (0..255), rgb_to_lab scales it to the lightness
\* (0..100), delta_e is the distance of two lightness values.
HexDigit == ("0" :> 0) @@ ("8" :> 8) @@ ("f" :> 15)
hex_to_rgb(hex) == 16 * HexDigit[hex[1]] + HexDigit[hex[2]]
rgb_to_lab(rgb) == (rgb * 100) \div 255
delta_e(a, b) == IF a < b THEN b - a ELSE a - b

\* The colors and the thresholds of the color queries.
Colors == {<<"0", "0">>, <<"8", "0">>, <<"8", "8">>, <<"f", "f">>}
Thresholds == {0, 3, 50, 100}

\* find_by_color with the test for an equal difference.
color_similar_exact(difference, similarity_threshold) == difference = similarity_threshold

\* find_by_color, "delta_e(color_query_lab, color_lab) <= similarity_threshold".
color_similar(difference, similarity_threshold) == difference <= similarity_threshold

\* resin.find_by_color: of all resins, those with a color whose difference to the
\* query color is within the threshold.
find_by_color(color_query_hex, similarity_threshold) ==
    {i \in DOMAIN resins :
        /\ resins[i].color_hex # None
        /\ color_similar(delta_e(rgb_to_lab(hex_to_rgb(color_query_hex)),
                                 rgb_to_lab(hex_to_rgb(Val(resins[i].color_hex)))),
                         similarity_threshold)}

\* add_where_clause_int_in (spoolman.database.utils): no filter without ids, else
\* the rows whose id is one of ids.
add_where_clause_int_in(id, ids) == ids = None \/ id \in Val(ids)

\* api resin find, filter_by_ids: the ids find_by_color matched, None without color_hex.
filter_by_ids(q) ==
    IF q.color_hex # None THEN Some(find_by_color(Val(q.color_hex), q.color_similarity_threshold))
    ELSE None

\* resin.find with ids = filter_by_ids and every other filter at its default:
\* (result, total_count), the rows in the order of their ids.
resin_find(q) ==
    LET Passes(i) == i \in DOMAIN resins /\ add_where_clause_int_in(i, filter_by_ids(q))
        result == SelectSeq([k \in 1..NoSuchResin |-> k], Passes)
    IN  [items |-> result, total_count |-> Len(result)]

\* api resin find: GET /resin with query q.
ResinFind(q) ==
    /\ resp' = Response(200, Some(resin_find(q)))
    /\ Publish(<<>>)
    /\ UNCHANGED <<vendors, resins, bottles, nextId, sess, now, conn>>

ColorQuery(color_hex, color_similarity_threshold) ==
    [color_hex |-> color_hex, color_similarity_threshold |-> color_similarity_threshold]
\* 20.0 is the default of color_similarity_threshold; it matters only with a color.
ColorQueries == {ColorQuery(None, 20)} \cup {ColorQuery(Some(c), t) : c \in Colors, t \in Thresholds}

\* A store whose resins have any color or none.
InitColor ==
    /\ vendors = VendorIds
    /\ \E color \in [ResinIds -> Opt(Colors)] :
          resins = [i \in ResinIds |-> [InitResins[i] EXCEPT !.color_hex = color[i]]]
    /\ bottles = <<>>
    /\ nextId = 1
    /\ sess = [p \in Sessions |-> IdleSession]
    /\ now = 0
    /\ subs = [t \in Topics |-> {}]
    /\ conn = [c \in Conns |-> NewConn]
    /\ req = NoReq
    /\ resp = NoResp
    /\ outbox = <<>>
    /\ dropped = {}
    /\ inbox = [c \in Conns |-> <<>>]
    /\ hist = NoHist

NextColor == \E q \in ColorQueries : ResinFind(q) /\ ServedBody("resin_find", 0, q)
SpecColor == InitColor /\ [][NextColor]_vars

\* ------------------------------------------------------------------ C17
\* C17: the answer to a find with a color and threshold t holds no resin without
\* color, holds every resin whose color is the query color, and is contained in the
\* answer the same store gives to the same color with any threshold t2 >= t.
C17_ColorThresholdMonotone ==
    (req.op = "resin_find" /\ Val(req.body).color_hex # None) =>
        LET q == Val(req.body) IN
        /\ \A i \in Range(Found.items) : resins[i].color_hex # None
        /\ \A i \in DOMAIN resins : resins[i].color_hex = q.color_hex => i \in Range(Found.items)
        /\ \A t2 \in Thresholds :
              t2 >= q.color_similarity_threshold =>
                  Range(Found.items) \subseteq Range(resin_find(ColorQuery(q.color_hex, t2)).items)

\* A find with threshold 0 has returned the resin of the query color and neither the
\* resin of a near color, which a larger threshold adds, nor one without color.
C17_Witness ==
    /\ req.op = "resin_find" /\ Val(req.body).color_hex # None
    /\ Val(req.body).color_similarity_threshold = 0
    /\ \E i \in Range(Found.items) : resins[i].color_hex = Val(req.body).color_hex
    /\ \E j \in DOMAIN resins :
          /\ j \notin Range(Found.items)
          /\ \E t2 \in Thresholds : j \in Range(resin_find(ColorQuery(Val(req.body).color_hex, t2)).items)

\* ================================================================== resin update
\* The fields of a resin PATCH body in the order body.dict() yields them; the other
\* fields are set like name.
ResinPatchOrder == <<"name", "vendor_id", "density">>

\* vendor.get_by_id (spoolman.database.vendor): whether the row is found.
NoSuchVendor == Cardinality(VendorIds) + 1
vendor_get_by_id(id) == id \in vendors

\* resin.update, one iteration of "for k, v in data.items()" on the loaded row.
resin_update_field(row, k, v) ==
    IF k = "vendor_id"
    THEN IF v = None THEN Ok([row EXCEPT !.vendor_id = None])
         ELSE IF vendor_get_by_id(Val(v)) THEN Ok([row EXCEPT !.vendor_id = v])
         ELSE Raise("ItemNotFoundError")
    ELSE Ok([row EXCEPT ![k] = v])

\* resin.update, the loop from field i of ResinPatchOrder on.
RECURSIVE resin_update_fields(_, _, _)
resin_update_fields(row, data, i) ==
    IF i > Len(ResinPatchOrder) THEN Ok(row)
    ELSE IF ResinPatchOrder[i] \notin DOMAIN data THEN resin_update_fields(row, data, i + 1)
    ELSE LET res == resin_update_field(row, ResinPatchOrder[i], data[ResinPatchOrder[i]]) IN
         IF res.raise # "" THEN res ELSE resin_update_fields(res.value, data, i + 1)

\* PATCH /resin/{id}: api update (density cannot be unset), then resin.update: the
\* loop, the commit, then the event.  An exception of resin_changed comes after the
\* commit: the update is stored and the request ends as an internal server error.
ResinUpdate(id, data) ==
    IF "density" \in DOMAIN data /\ data["density"] = None THEN Reject(422)
    ELSE IF ~resin_get_by_id(id) THEN Reject(404)
    ELSE \E res \in {resin_update_fields(resins[id], data, 1)} :
            IF res.raise # "" THEN Reject(404)
            ELSE \E event \in {resin_changed(id, res.value, "UPDATED")} :
                 /\ resins' = [resins EXCEPT ![id] = res.value]
                 /\ IF event.raise # ""
                    THEN resp' = Response(500, None) /\ Publish(<<>>)
                    ELSE /\ resp' = Response(200, Some(from_db(id, res.value)))
                         /\ Publish(<<event.value>>)
                 /\ UNCHANGED <<vendors, bottles, nextId, sess, now, conn>>

\* POST /resin: api create calls resin.create with the keywords diameter,
\* settings_cure_temp, settings_cure_time and settings_wash_time, none of which is a
\* parameter of resin.create: the call raises TypeError before any row is added.
ResinCreate == Reject(500)

\* ------------------------------------------------------------------ updates
\* PATCH bodies of bottles: every field alone (first_used with one time, last_used is
\* set like it), and the resin together with the location or the remaining weight.
FramePatches ==
    UNION {PatchesOver({k}, {1}) : k \in PatchKeys \ {"first_used", "last_used"}}
        \cup {("first_used" :> Some(0))}
        \cup PatchesOver({"resin_id", "location"}, {1})
        \cup PatchesOver({"resin_id", "remaining_weight"}, {1})

\* PATCH bodies of resins: the vendor (none, stored, not stored), the name together
\* with a vendor that is not stored, or the density unset.
ResinPatches ==
    {("vendor_id" :> v) : v \in Opt(VendorIds \cup {NoSuchVendor})}
        \cup {("name" :> Some(<<"c">>)) @@ ("vendor_id" :> Some(NoSuchVendor))}
        \cup {("density" :> None)}

NextUpdate ==
    \/ \E data \in FramePatches : Update(1, data) /\ ServedBody("update", 1, data)
    \/ \E data \in PatchesOver({"location"}, {1}) :
          Update(NoSuchId, data) /\ ServedBody("update", NoSuchId, data)
    \/ \E id \in {2, NoSuchResin}, data \in ResinPatches :
          ResinUpdate(id, data) /\ ServedBody("resin_update", id, data)
SpecUpdate == Stocked(ResinIds, {0}) /\ [][NextUpdate]_vars

\* ------------------------------------------------------------------ C12
StoredFields == {"resin_id", "used_weight", "first_used", "last_used", "location", "archived"}
ResinStoredFields == {"vendor_id", "weight", "diameter", "density", "name", "color_hex"}

\* The update just served succeeded and was a bottle update / a resin update (a
\* resin update is stored once it is neither rejected nor not found).
BottleUpdated == req'.op = "update" /\ resp'.status = 200
ResinUpdated == req'.op = "resin_update" /\ resp'.status \notin {404, 422}

\* Nothing but bottle id changed / nothing but resin id changed.
OnlyBottle(id) ==
    /\ DOMAIN bottles' = DOMAIN bottles
    /\ \A j \in DOMAIN bottles \ {id} : bottles'[j] = bottles[j]
    /\ resins' = resins /\ vendors' = vendors
OnlyResin(id) ==
    /\ DOMAIN resins' = DOMAIN resins
    /\ \A j \in DOMAIN resins \ {id} : resins'[j] = resins[j]
    /\ bottles' = bottles /\ vendors' = vendors

\* C12 as stated: a successful update leaves every stored field whose key is not in
\* the request, and every other entity, unchanged.
C12_OnlySuppliedFieldsChange ==
    [][/\ BottleUpdated =>
             /\ OnlyBottle(req'.id)
             /\ \A k \in StoredFields \ DOMAIN Val(req'.body) :
                   bottles'[req'.id][k] = bottles[req'.id][k]
       /\ ResinUpdated =>
             /\ OnlyResin(req'.id)
             /\ \A k \in ResinStoredFields \ DOMAIN Val(req'.body) :
                   resins'[req'.id][k] = resins[req'.id][k]]_vars

\* C12 amended: a successful update leaves every stored field whose key is not in
\* the request, and every other entity, unchanged, but for used_weight of a bottle
\* when the request gives remaining_weight: it becomes max(weight - remaining, 0)
\* for the weight of the bottle's resin after the update.
C12_OnlySuppliedFieldsOrUsedByRemaining ==
    [][/\ BottleUpdated =>
             /\ OnlyBottle(req'.id)
             /\ \A k \in StoredFields \ (DOMAIN Val(req'.body) \cup {"used_weight"}) :
                   bottles'[req'.id][k] = bottles[req'.id][k]
             /\ "used_weight" \notin DOMAIN Val(req'.body) =>
                   IF "remaining_weight" \in DOMAIN Val(req'.body)
                   THEN bottles'[req'.id].used_weight =
                           max(Val(resins[bottles'[req'.id].resin_id].weight)
                                  - Val(Val(req'.body)["remaining_weight"]), 0)
                   ELSE bottles'[req'.id].used_weight = bottles[req'.id].used_weight
       /\ ResinUpdated =>
             /\ OnlyResin(req'.id)
             /\ \A k \in ResinStoredFields \ DOMAIN Val(req'.body) :
                   resins'[req'.id][k] = resins[req'.id][k]]_vars

\* An update of the resin alone has succeeded on a bottle that keeps a used weight,
\* a location and an archived flag set by earlier updates.
C12_Witness ==
    /\ req.op = "update" /\ resp.status = 200
    /\ DOMAIN Val(req.body) = {"resin_id"}
    /\ bottles[req.id].resin_id = Val(Val(req.body)["resin_id"])
    /\ bottles[req.id].used_weight > 0
    /\ bottles[req.id].location # None
    /\ bottles[req.id].archived = Some(TRUE)

\* ------------------------------------------------------------------ C13
\* The update request names a resin that is not stored or unsets the resin; the resin
\* update request names a vendor that is not stored.
BadResinRef(data) ==
    "resin_id" \in DOMAIN data /\ (data["resin_id"] = None \/ Val(data["resin_id"]) \notin DOMAIN resins)
BadVendorRef(data) ==
    "vendor_id" \in DOMAIN data /\ data["vendor_id"] # None /\ Val(data["vendor_id"]) \notin vendors

\* C13: an update that reassigns the resin of a bottle to an id that is not stored or
\* unsets it, or reassigns the vendor of a resin to an id that is not stored, is
\* answered with an error, changes no row and publishes no event.
C13_FailedReassignChangesNothing ==
    [][((req'.op = "update" /\ BadResinRef(Val(req'.body)))
           \/ (req'.op = "resin_update" /\ BadVendorRef(Val(req'.body)))) =>
          /\ resp'.status \in {404, 422}
          /\ bottles' = bottles /\ resins' = resins /\ vendors' = vendors
          /\ outbox' = <<>>]_vars

\* An update that names a resin not stored, together with a location the stored
\* bottle does not have, has been answered 404.
C13_Witness ==
    /\ req.op = "update" /\ resp.status = 404
    /\ req.id \in DOMAIN bottles
    /\ DOMAIN Val(req.body) = {"resin_id", "location"}
    /\ Val(req.body)["resin_id"] = Some(NoSuchResin)
    /\ Val(req.body)["location"] # bottles[req.id].location

\* ================================================================== liveness replies
\* The endpoint loop with the received text on record.
NextLive ==
    \/ \E c \in Conns, topic \in {notify_any_topic, notify_topic(1), resin_notify_any_topic} :
          WsConnect(c, topic) /\ Internal
    \/ \E c \in Conns, text \in {"", "ping", "{}"} : WsReceive(c, text) /\ ServedBody("receive", c, text)
    \/ \E c \in Conns : WsDisconnect(c) /\ Internal
    \/ \E c \in Conns : WsError(c) /\ Internal
SpecLive == Stocked({1}, {0}) /\ [][NextLive]_vars

\* ------------------------------------------------------------------ C14
\* C14: every text frame an open connection receives, whatever its content, is
\* answered with exactly one {"status": "healthy"}: the turn of the loop that took
\* the frame sends it, no later turn answers an earlier frame.
C14_EveryTextFrameAnswered ==
    req.op = "receive" => inbox[req.id] = <<Healthy>>

Get(id) ==
    IF ~bottle_get_by_id(id) THEN Reject(404)
    ELSE /\ resp' = Response(200, Some(from_db(id, bottles[id])))
         /\ Publish(<<>>)
         /\ UNCHANGED <<vendors, resins, bottles, nextId, sess, now, conn>>

\* Requests with a valid body on a stored bottle and on an id without row; bottle 1
\* is without row as well once its delete is committed.
NextNotFound ==
    \/ \E id \in OneBottleId : Get(id) /\ Served("get", id)
    \/ \E id \in OneBottleId, data \in PatchesOver({"used_weight"}, {1}) :
          Update(id, data) /\ ServedBody("update", id, data)
    \/ \E p \in Sessions, id \in OneBottleId : Delete(p, id) /\ Served("delete", id)
    \/ \E p \in Sessions : SessionCommit(p) /\ Internal
    \/ \E p \in Sessions, id \in OneBottleId, body \in UseBodies({1}, {1}) \ UseBodies({}, {}) :
          Use(p, id, body) /\ ServedBody("use", id, body)
    \/ \E p \in Sessions : UseFinish(p) /\ Served("use", sess[p].id)
SpecNotFound == Stocked({1}, {0}) /\ [][NextNotFound]_vars

\* ------------------------------------------------------------------ C20
\* The step serves a get, update, delete or use (by weight or by length, one of the
\* two given) that names an id without row.
OnMissingBottle ==
    /\ req'.op \in {"get", "update", "delete", "use"}
    /\ req'.id \notin DOMAIN bottles
    /\ (req'.op = "use" /\ req'.body # None) => ~BothOrNeither(Val(req'.body))

\* The step is the UPDATE of a use by weight, which matches no row: the answer is
\* still to come, from the get_by_id that follows.
UpdateOfNoRow ==
    /\ req'.op = "use" /\ req'.body # None /\ Val(req'.body).use_weight # None
    /\ resp' = NoResp
    /\ \E p \in Sessions :
          /\ sess[p].pc = "idle"
          /\ sess' = [sess EXCEPT ![p] = [pc |-> "use", id |-> req'.id, used |-> None]]

\* C20: get, update, delete and use by weight or by length on an id without row
\* change no row, publish no event and are answered 404; the use by weight is
\* answered 404 by the step after its UPDATE, which matched no row.
C20_MissingBottleIsNotFound ==
    [][OnMissingBottle =>
          /\ bottles' = bottles /\ resins' = resins /\ vendors' = vendors
          /\ outbox' = <<>>
          /\ resp'.status = 404 \/ UpdateOfNoRow]_vars

\* A use by weight on an id without row has been answered 404 after its UPDATE, the
\* stored bottles being what they were.
C20_Witness ==
    /\ req.op = "use" /\ req.body = None /\ req.id \notin DOMAIN bottles
    /\ resp.status = 404
    /\ outbox = <<>>
    /\ bottles # <<>>

\* ================================================================== timestamps of use
\* Consume by weight and by length on stored bottles that were used before or
\* never, while the clock advances.
NextTouch ==
    \/ \E p \in Sessions, id \in OneBottleId, body \in UseBodies({1}, {-1, 1}) \ UseBodies({}, {}) :
          Use(p, id, body) /\ ServedBody("use", id, body)
    \/ \E p \in Sessions : UseFinish(p) /\ Served("use", sess[p].id)
    \/ Tick /\ Internal
SpecTouch ==
    /\ \E rid \in ResinIds, t \in {None, Some(MaxTime)} :
           /\ bottles = [i \in BottleIds |-> BottleRow(rid, 1, t, t, Some("shelf"), Some(TRUE))]
           /\ vendors = VendorIds /\ resins = InitResins /\ nextId = MaxBottles + 1
           /\ sess = [p \in Sessions |-> IdleSession] /\ now = 0
           /\ subs = [t2 \in Topics |-> {}] /\ conn = [c \in Conns |-> NewConn]
           /\ req = NoReq /\ resp = NoResp /\ outbox = <<>> /\ dropped = {}
           /\ inbox = [c \in Conns |-> <<>>] /\ hist = NoHist
    /\ [][NextTouch]_vars

\* ------------------------------------------------------------------ C21
\* The step is the end of a consume call that succeeded.
Consumed == req'.op = "use" /\ resp'.status = 200

\* C21: a consume that succeeds sets last_used to the time of the call and sets
\* first_used to that time only if it was unset: a first_used that has a value is
\* kept by every later consume.  Of the bottle, the call changes no field other than
\* used_weight, first_used and last_used, and it changes no other row.
C21_UseStampsLastAndFirstOnce ==
    [][Consumed =>
          /\ bottles'[req'.id].last_used = Some(now)
          /\ bottles'[req'.id].first_used =
                IF bottles[req'.id].first_used = None THEN Some(now) ELSE bottles[req'.id].first_used
          /\ \A k \in StoredFields \ {"used_weight", "first_used", "last_used"} :
                bottles'[req'.id][k] = bottles[req'.id][k]
          /\ OnlyBottle(req'.id)]_vars

\* A bottle first used at time 0 has been used again after the clock advanced:
\* last_used is the later time, first_used is still the earlier one.
C21_Witness ==
    /\ req.op = "use" /\ resp.status = 200
    /\ now > 0
    /\ bottles[req.id].first_used = Some(0)
    /\ bottles[req.id].last_used = Some(now)
    /\ bottles[req.id].location = Some("shelf")

\* ================================================================== sort by remaining weight
\* Bottles on the resin with weight MaxWeight that are unused, used up, or used beyond
\* the weight (use and create put no upper bound on used_weight), and bottles on the
\* resin without weight; sorts by remaining_weight alone and with the id as second key.
NextRemaining ==
    \E q \in {FindQuery(None, None, None, FALSE, Some(sort), None, 0) :
                 sort \in {<<"remaining_weight", ":", "asc">>, <<"remaining_weight", ":", "desc">>,
                           <<"remaining_weight", ":", "asc", ",", "id", ":", "desc">>,
                           <<"remaining_weight", ":", "desc", ",", "id", ":", "asc">>}},
       scan \in Scans, nulls_smallest \in BOOLEAN :
        Find(q, scan, nulls_smallest) /\ ServedBody("find", 0, q)
SpecRemaining ==
    /\ Shelved({BottleRow(1, u, None, None, None, Some(FALSE)) : u \in {0, MaxWeight, MaxWeight + 1}}
                   \cup {BottleRow(2, 0, None, None, None, Some(FALSE))})
    /\ [][NextRemaining]_vars

\* ------------------------------------------------------------------ C22
\* The remaining weight of bottle i, clamped at zero (its resin has a weight).
ClampedRemaining(i) == max(Val(resins[bottles[i].resin_id].weight) - bottles[i].used_weight, 0)

\* The place of bottle i under one sort entry when remaining_weight is the clamped value.
ClampedRank(i, entry) ==
    IF entry.field = <<"remaining_weight">>
    THEN IF entry.order = "ASC" THEN ClampedRemaining(i) ELSE 0 - ClampedRemaining(i)
    ELSE sort_rank(i, entry, TRUE)

\* Row a may come before row b under the entries of sort_by from entry k on, by the clamped value.
RECURSIVE ClampedOrder(_, _, _, _)
ClampedOrder(a, b, sort_by, k) ==
    IF k > Len(sort_by) THEN TRUE
    ELSE IF ClampedRank(a, sort_by[k]) < ClampedRank(b, sort_by[k]) THEN TRUE
    ELSE IF ClampedRank(a, sort_by[k]) > ClampedRank(b, sort_by[k]) THEN FALSE
    ELSE ClampedOrder(a, b, sort_by, k + 1)

\* C22: a find sorted by remaining_weight orders the bottles whose resin has a weight
\* by max(weight - used_weight, 0): a bottle used beyond the weight of its resin
\* sorts as one with remaining weight 0, equal to a bottle that is exactly used up,
\* so that the next sort entry decides between the two.
C22_SortedByClampedRemaining ==
    (req.op = "find" /\ resp.status = 200) =>
        \A i, j \in 1..Len(Found.items) :
            (/\ i < j
             /\ resins[bottles[Found.items[i]].resin_id].weight # None
             /\ resins[bottles[Found.items[j]].resin_id].weight # None)
                => ClampedOrder(Found.items[i], Found.items[j], parse_sort(Val(req.body).sort).value, 1)

\* ================================================================== remaining weight without resin weight
\* PATCH bodies that give remaining_weight: alone, after first_used, after a resin, or
\* before a location, on a bottle whose resin has a weight or has none.
NextPartial ==
    \E data \in PatchesOver({"remaining_weight"}, FewWeights)
                   \cup {("first_used" :> Some(MaxTime)) @@ ("remaining_weight" :> Some(1))}
                   \cup {("resin_id" :> Some(rid)) @@ ("remaining_weight" :> Some(1)) : rid \in ResinIds}
                   \cup PatchesOver({"remaining_weight", "location"}, {1}) :
        Update(1, data) /\ ServedBody("update", 1, data)
SpecPartial == Stocked(ResinIds, 0..MaxWeight) /\ [][NextPartial]_vars

\* ------------------------------------------------------------------ C23
\* The resin the bottle has when the update comes to remaining_weight: the one the
\* same request assigns, else the stored one.
ResinAtRemaining(id, data) ==
    IF "resin_id" \in DOMAIN data THEN Val(data["resin_id"]) ELSE bottles[id].resin_id

\* C23: an update of a stored bottle that gives remaining_weight while the bottle's
\* resin has no weight is answered with a client error and leaves the stored bottle
\* as it was: no field of the request is persisted and no event is published.
C23_RemainingWithoutWeightChangesNothing ==
    [][(/\ req'.op = "update" /\ req'.id \in DOMAIN bottles
        /\ "remaining_weight" \in DOMAIN Val(req'.body)
        /\ resins[ResinAtRemaining(req'.id, Val(req'.body))].weight = None)
        => /\ resp'.status \in 400..499
           /\ bottles' = bottles
           /\ outbox' = <<>>]_vars

\* ================================================================== change events
\* Every mutation of bottles and resins, requests that succeed and requests that fail:
\* a create on a stored resin or on none, an update of the used or remaining weight or
\* to a resin that is not stored, a use by weight or with both deltas, deletes of
\* stored and of missing rows.
NextEvents ==
    \/ \E body \in CreateBodies({1}, {1}, {DefaultExtras}) : Create(body) /\ Served("create", 0)
    \/ \E id \in OneBottleId,
          data \in PatchesOver({"used_weight"}, {1}) \cup PatchesOver({"remaining_weight"}, {1})
                      \cup {("resin_id" :> Some(NoSuchResin))} :
          Update(id, data) /\ Served("update", id)
    \/ \E p \in Sessions, id \in OneBottleId : Delete(p, id) /\ Served("delete", id)
    \/ \E p \in Sessions : SessionCommit(p) /\ Internal
    \/ \E p \in Sessions, body \in UseBodies({1}, {-1, 1}) \ UseBodies({1}, {}) :
          Use(p, 1, body) /\ Served("use", 1)
    \/ \E p \in Sessions : UseFinish(p) /\ Served("use", sess[p].id)
    \/ ResinCreate /\ Served("resin_create", 0)
    \/ \E id \in AnyResinId, data \in {("vendor_id" :> Some(v)) : v \in {1, NoSuchVendor}} :
          ResinUpdate(id, data) /\ Served("resin_update", id)
    \/ \E id \in AnyResinId : ResinDelete(id) /\ Served("resin_delete", id)
SpecEvents == Init /\ [][NextEvents]_vars

\* ------------------------------------------------------------------ C24
BottleOps == {"create", "update", "use", "delete"}
ResinOps == {"resin_create", "resin_update", "resin_delete"}

\* The kind of event and the resource type of an operation.
EventKind(op) ==
    IF op \in {"create", "resin_create"} THEN "ADDED"
    ELSE IF op \in {"delete", "resin_delete"} THEN "DELETED"
    ELSE "UPDATED"
Resource(op) == IF op \in BottleOps THEN "bottle" ELSE "resin"

\* The step ends an operation that succeeded: it is answered 200 or, for a resin,
\* its change is in the committed store.
Succeeded ==
    \/ req'.op \in BottleOps \cup ResinOps /\ resp'.status = 200
    \/ req'.op \in ResinOps /\ resins' # resins

\* C24: every create, update, use or delete of a bottle or a resin with id i that
\* succeeds publishes exactly one event, on topic (resource, str(i)), of type ADDED
\* for a create, UPDATED for an update or a use and DELETED for a delete; the
\* payload of a bottle event carries the committed used_weight of the bottle (for a
\* delete: of the row that is deleted).  An operation that fails publishes none.
C24_OneEventPerSuccessfulOperation ==
    [][req'.op \in BottleOps \cup ResinOps =>
          IF Succeeded
          THEN /\ Len(outbox') = 1
               /\ LET i == IF req'.op = "create" THEN nextId ELSE req'.id
                  IN  /\ outbox'[1].topic = <<Resource(req'.op), str(i)>>
                      /\ outbox'[1].resource = Resource(req'.op)
                      /\ outbox'[1].type = EventKind(req'.op)
                      /\ outbox'[1].payload.id = i
                      /\ req'.op \in BottleOps =>
                            outbox'[1].payload.row.used_weight =
                               IF req'.op = "delete" THEN bottles[i].used_weight
                               ELSE bottles'[i].used_weight
          ELSE outbox' = <<>>]_vars

====
